---- MODULE Spec2Model ----
(***************************************************************************)
(* A model of the CRUD service layer of ts-tro: UserService.create and the *)
(* findOne / findAll / update / delete handlers of user.service.ts, run    *)
(* against the generic DatabaseService.  Every handler is split at its     *)
(* awaits on the database, so that calls can interleave there.             *)
(*                                                                         *)
(* Optional values (undefined / null in the source) are sequences of       *)
(* length at most one: None is <<>>, Some(v) is <<v>>.                     *)
(***************************************************************************)
EXTENDS Integers, Sequences, FiniteSets, TLC

VARIABLES users, plans, calls, env

vars == <<users, plans, calls, env>>

---------------------------------------------------------------------------
(* Bounds of the model *)

\* number of call slots (calls that can be in flight together)
MaxCalls == 2
\* creates are no longer started once this many users are stored
MaxUsers == 2
\* size of the largest initial Subscription Plan collection
MaxPlans == 12

(* Program constants *)

\* let recordLimit = 10
DefaultLimit == 10
\* let recordSkip = 0
DefaultSkip == 0
\* name: min(3) / max(50)
MinNameLen == 3
MaxNameLen == 50
\* email: min(10) / max(50)
MinEmailLen == 10
MaxEmailLen == 50
\* raw_password: min(6) / max(20)
MinPasswordLen == 6
MaxPasswordLen == 20

---------------------------------------------------------------------------
(* Optional values and lodash predicates *)

None == <<>>

Some(v) == <<v>>

\* _.isNil(value): value is null or undefined
IsNil(opt) == opt = None

Get(opt) == opt[1]

\* _.isEmpty(result?.id): the result is missing, or its id is the empty string
IsEmptyId(result) == IsNil(result) \/ Len(Get(result).id) = 0

\* _.isEmpty(edge) / _.isEmpty(edges): undefined, or a collection of no elements
IsEmptyEdges(edges) == IsNil(edges) \/ Len(Get(edges)) = 0

Min(a, b) == IF a < b THEN a ELSE b

---------------------------------------------------------------------------
(* Strings that the code transforms are sequences of one-character strings *)

UpperCase == <<"A", "B", "P">>

LowerCase == <<"a", "b", "p">>

\* String.prototype.toLowerCase, one character
LowerChar(ch) ==
    IF \E i \in 1..Len(UpperCase) : UpperCase[i] = ch
    THEN LowerCase[CHOOSE i \in 1..Len(UpperCase) : UpperCase[i] = ch]
    ELSE ch

ToLowerCase(s) == [i \in 1..Len(s) |-> LowerChar(s[i])]

\* String.prototype.replace(from, to) with a string pattern: the FIRST
\* occurrence only
ReplaceFirst(s, from, to) ==
    IF \E i \in 1..Len(s) : s[i] = from
    THEN LET k == CHOOSE i \in 1..Len(s) :
                      s[i] = from /\ \A j \in 1..(i - 1) : s[j] # from
         IN  [i \in 1..Len(s) |-> IF i = k THEN to ELSE s[i]]
    ELSE s

\* payload.name.toLowerCase().replace(' ', '-')
Slug(name) == ReplaceFirst(ToLowerCase(name), " ", "-")

RECURSIVE TrimLeft(_)
TrimLeft(s) == IF s # <<>> /\ Head(s) = " " THEN TrimLeft(Tail(s)) ELSE s

RECURSIVE TrimRight(_)
TrimRight(s) ==
    IF s # <<>> /\ s[Len(s)] = " " THEN TrimRight(SubSeq(s, 1, Len(s) - 1)) ELSE s

\* yup .trim()
Trim(s) == TrimRight(TrimLeft(s))

\* Users.generate_hashed_password
generate_hashed_password(raw_password) == "!" \o raw_password

---------------------------------------------------------------------------
(* Error generator and error classifier *)

Duplicate(resource) == [type |-> "Duplicate", resource |-> resource]

NotFound(resource) == [type |-> "NotFound", resource |-> resource]

UnableSave(resource) == [type |-> "UnableToSave", resource |-> resource]

UnableToDelete(resource) == [type |-> "UnableToDelete", resource |-> resource]

NoMessage == [type |-> "none", resource |-> "none"]

ConflictError(msg) == [kind |-> "Conflict", msg |-> msg]

NotFoundError(msg) == [kind |-> "NotFound", msg |-> msg]

BadRequestError(msg) == [kind |-> "BadRequest", msg |-> msg]

\* what schema.validate rejects with
ValidationError(resource) ==
    [kind |-> "Validation", msg |-> [type |-> "Validation", resource |-> resource]]

\* a rejection of the database promise: not one of the service's errors
DatabaseError == [kind |-> "Database", msg |-> NoMessage]

NoError == [kind |-> "none", msg |-> NoMessage]

Classified == {"Validation", "Conflict", "NotFound", "BadRequest"}

\* ParseError(caught, fallbackMsg): an error that is already classified is
\* rethrown, any other failure becomes a classified error carrying the
\* fallback message.  The set holds the ways the call can go on: where the
\* environment allows a ParseError that only logs, it may also return.
ParseError(e, fallbackMsg) ==
    {[threw |-> TRUE,
      error |-> IF e.kind \in Classified THEN e ELSE BadRequestError(fallbackMsg)]}
    \cup (IF env.parseThrows THEN {} ELSE {[threw |-> FALSE, error |-> NoError]})

---------------------------------------------------------------------------
(* Schema validators: TRUE when validate() resolves, FALSE when it rejects *)

\* UserUpdateSchema: name is trimmed and has 3..50 characters, email has
\* 10..50, raw_password has 6..20
UserUpdateSchema(payload) ==
    /\ Len(Trim(payload.name)) >= MinNameLen
    /\ Len(Trim(payload.name)) <= MaxNameLen
    /\ Len(payload.email) >= MinEmailLen
    /\ Len(payload.email) <= MaxEmailLen
    /\ Len(payload.raw_password) >= MinPasswordLen
    /\ Len(payload.raw_password) <= MaxPasswordLen

\* UserCreateSchema: the same field constraints as the update schema
UserCreateSchema(payload) == UserUpdateSchema(payload)

\* subscriptionPlanFilterSchema: every field is optional; limit and skip,
\* when given, are not negative
subscriptionPlanFilterSchema(where) ==
    \/ IsNil(where)
    \/ /\ IsNil(Get(where).limit) \/ Get(Get(where).limit) >= 0
       /\ IsNil(Get(where).skip) \/ Get(Get(where).skip) >= 0

\* subscriptionPlanUpdateSchema on {...payload, ...where}: name is required,
\* trimmed, and has 3..50 characters
subscriptionPlanUpdateSchema(payload, where) ==
    /\ ~IsNil(payload.name)
    /\ Len(Trim(Get(payload.name))) >= MinNameLen
    /\ Len(Trim(Get(payload.name))) <= MaxNameLen

---------------------------------------------------------------------------
(* DatabaseService: a collection is a sequence of records in insertion     *)
(* order; a filter or patch is a partial record, its unset fields None.    *)

Matches(rec, filter) ==
    \A k \in DOMAIN filter :
        IsNil(filter[k]) \/ (k \in DOMAIN rec /\ rec[k] = Get(filter[k]))

Select(store, filter) == SelectSeq(store, LAMBDA r : Matches(r, filter))

\* findOne<T, F>(filter): Promise<T | undefined>
DbFindOne(store, filter) ==
    IF Select(store, filter) = <<>> THEN None ELSE Some(Head(Select(store, filter)))

\* findAll<T, F>(filter, limit, skip): Promise<[T[], number]>
DbFindAll(store, filter, limit, skip) ==
    LET m == Select(store, filter)
    IN  [edges |-> SubSeq(m, skip + 1, Min(skip + limit, Len(m))),
         count |-> Len(m)]

\* the identities create() can hand out: a fresh one, or, from a database
\* that does not keep its contract, none at all
DbAssignedIds(store) ==
    {"u" \o ToString(Len(store) + 1)} \cup (IF env.dbFaulty THEN {""} ELSE {})

\* create<T, M>(model): Promise<T>
DbCreate(store, model, id) ==
    LET entity == [id |-> id, name |-> model.name, email |-> model.email,
                   hashed_password |-> model.hashed_password]
    IN  [store |-> Append(store, entity), result |-> entity]

Patched(rec, patch) ==
    [k \in DOMAIN rec |->
        IF k \in DOMAIN patch /\ ~IsNil(patch[k]) THEN Get(patch[k]) ELSE rec[k]]

\* update<T, P, F>(patch, filter): Promise<[T[], number]>
DbUpdate(store, patch, filter) ==
    LET new == [i \in 1..Len(store) |->
                   IF Matches(store[i], filter) THEN Patched(store[i], patch)
                   ELSE store[i]]
        hit == {i \in 1..Len(store) : Matches(store[i], filter)}
    IN  [store |-> new,
         edges |-> [i \in 1..Len(Select(store, filter)) |->
                      Patched(Select(store, filter)[i], patch)],
         modified |-> Cardinality(hit)]

\* delete<T, F>(filter): Promise<[T[], number]>
DbDelete(store, filter) ==
    [store |-> SelectSeq(store, LAMBDA r : ~Matches(r, filter)),
     edges |-> Select(store, filter),
     modified |-> Len(Select(store, filter))]

\* whether a database promise may reject
DbRejects == IF env.dbFaulty THEN {FALSE, TRUE} ELSE {FALSE}

\* the filter { email } of create's duplicate check
UserFilter(email) == [email |-> Some(email)]

\* new Users({ ...payload, hashed_password }): Object.assign copies every
\* field of the payload
Users(payload, hashed_password) ==
    [name |-> payload.name, email |-> payload.email,
     raw_password |-> payload.raw_password, hashed_password |-> hashed_password]

\* new SubscriptionPlans({...}) used as a filter or a patch
SubscriptionPlans(id, name, slug) == [id |-> id, name |-> name, slug |-> slug]

---------------------------------------------------------------------------
(* Inputs *)

Letters == <<"a", "b", "c", "d", "e", "f", "g", "h", "i", "j", "k", "l", "m", "n">>

PlanId(i) == "p" \o ToString(i)

PlanName(i) == <<"P", "l", "n", " ", Letters[i]>>

\* a collection of n Subscription Plans with distinct ids and slugs
InitialPlans(n) ==
    [i \in 1..n |-> [id |-> PlanId(i), name |-> PlanName(i), slug |-> Slug(PlanName(i))]]

InitialPlanCounts == {0, 2, MaxPlans}

\* create payloads: valid ones on two emails, and one violation per field
UserNames == {<<"A", "n", "n">>, <<"A", "l", " ">>}

Emails == {"ann@ex.com", "bob@ex.com", "a@b.c"}

Passwords == {"secret1", "abc"}

CreatePayloads == [name : UserNames, email : Emails, raw_password : Passwords]

\* update payloads: a name whose slug is that of plan 1, one for plan 2,
\* a name with two spaces, a name too short once trimmed, and no name
UpdateNames ==
    {Some(<<"p", "l", "n", " ", "a">>), Some(<<"p", "l", "n", "-", "b">>),
     Some(<<"P", "l", "n", " ", "z", " ", "z">>), Some(<<" ", "P", "l", " ">>), None}

UpdatePayloads == [name : UpdateNames]

\* filters: absent, or { id?, limit?, skip? }; id "p0" is held by no record
FilterIds == {None, Some(PlanId(1)), Some("p0")}

PageArgs ==
    {<<None, None>>, <<Some(5), Some(5)>>, <<Some(1), Some(1)>>, <<Some(5), None>>,
     <<None, Some(5)>>, <<Some(-1), None>>}

Filters ==
    {None} \cup {Some([id |-> i, limit |-> pg[1], skip |-> pg[2]]) :
                    i \in FilterIds, pg \in PageArgs}

---------------------------------------------------------------------------
(* Calls *)

Calls == 1..MaxCalls

\* the locals of a handler, its position, and what it ended with.  The
\* fields reads, writes, queries, failed and pre record the history of the
\* call: database calls issued, a failure caught, the collections at entry.
IdleCall ==
    [pc |-> "idle", op |-> "none", payload |-> None, where |-> None,
     valid |-> FALSE, isExist |-> None, result |-> None, edges |-> None,
     count |-> None, modified |-> None,
     recordLimit |-> DefaultLimit, recordSkip |-> DefaultSkip,
     query |-> None, page_info |-> None,
     reads |-> 0, writes |-> 0, queries |-> 0, failed |-> FALSE,
     outcome |-> "none", error |-> NoError,
     pre |-> [users |-> <<>>, plans |-> <<>>]]

NewCall(op) ==
    [IdleCall EXCEPT !.op = op, !.pre = [users |-> users, plans |-> plans]]

InFlight == {c \in Calls : calls[c].pc # "idle"}

\* a call enters on the lowest free slot, while the environment admits one
CanInvoke(c) ==
    /\ calls[c].pc = "idle"
    /\ \A d \in 1..(c - 1) : calls[d].pc # "idle"
    /\ Cardinality(InFlight) < env.inflight

Returned == [outcome |-> "returned", error |-> NoError]

Thrown(e) == [outcome |-> "thrown", error |-> e]

Done(call, end) ==
    [call EXCEPT !.pc = "done", !.outcome = end.outcome, !.error = end.error]

\* catch (e) { logger.error(e); ParseError(e, fallbackMsg); } and what follows:
\* ParseError throws, or the handler goes on below the try block
Caught(call, e, fallbackMsg, afterTry) ==
    {Done([call EXCEPT !.failed = TRUE],
          IF pe.threw THEN Thrown(pe.error) ELSE afterTry) :
        pe \in ParseError(e, fallbackMsg)}

---------------------------------------------------------------------------
(* UserService.create *)

\* the result of validate() is not waited for
CreateEntryUnchecked(valid) == "create_findOne"

\* validate() is the first statement of the try block: a rejection goes
\* to the catch block, otherwise the duplicate check is next
CreateEntry(valid) == IF valid THEN "create_findOne" ELSE "catch"

\* the duplicate test looks at the slug, which a user does not have
CreateDuplicateOnSlug(isExist) == ~IsNil(isExist) /\ "slug" \in DOMAIN Get(isExist)

\* if (!_.isNil(isExist)) throw ConflictError(Duplicate('User'))
CreateDuplicate(isExist) == ~IsNil(isExist)

\* the result is returned without looking at its id
CreateAfterTryUnchecked(result) == Returned

\* if (!_.isEmpty(result?.id)) return result; throw BadRequestError(UnableSave('User'))
CreateAfterTry(result) ==
    IF ~IsEmptyId(result) THEN Returned
    ELSE Thrown(BadRequestError(UnableSave("User")))

CreateStart(c, payload) ==
    /\ CanInvoke(c)
    /\ Len(users) < MaxUsers
    /\ LET call == [NewCall("create") EXCEPT !.payload = Some(payload),
                                             !.valid = UserCreateSchema(payload)]
       IN  \E next \in
               (IF CreateEntry(call.valid) = "catch"
                THEN Caught(call, ValidationError("User"), Duplicate("User"),
                            CreateAfterTry(call.result))
                ELSE {[call EXCEPT !.pc = "create_findOne"]}) :
               calls' = [calls EXCEPT ![c] = next]
    /\ UNCHANGED <<users, plans, env>>

\* const isExist = await this.dbService.findOne({ email })
CreateFindOne(c) ==
    /\ calls[c].pc = "create_findOne"
    /\ LET call == [calls[c] EXCEPT !.reads = @ + 1]
           found == [call EXCEPT !.isExist =
                        DbFindOne(users, UserFilter(Get(call.payload).email))]
       IN  \E rejected \in DbRejects :
           \E next \in
               (IF rejected
                THEN Caught(call, DatabaseError, Duplicate("User"),
                            CreateAfterTry(call.result))
                ELSE IF CreateDuplicate(found.isExist)
                THEN Caught(found, ConflictError(Duplicate("User")),
                            Duplicate("User"), CreateAfterTry(found.result))
                ELSE {[found EXCEPT !.pc = "create_insert"]}) :
               calls' = [calls EXCEPT ![c] = next]
    /\ UNCHANGED <<users, plans, env>>

\* result = await this.dbService.create(new Users({ ...payload, hashed_password }))
CreateInsert(c) ==
    /\ calls[c].pc = "create_insert"
    /\ LET call == [calls[c] EXCEPT !.writes = @ + 1]
           payload == Get(call.payload)
           model == Users(payload, generate_hashed_password(payload.raw_password))
       IN  \E rejected \in DbRejects :
               IF rejected
               THEN /\ users' = users
                    /\ \E next \in Caught(call, DatabaseError, Duplicate("User"),
                                          CreateAfterTry(call.result)) :
                           calls' = [calls EXCEPT ![c] = next]
               ELSE \E id \in DbAssignedIds(users) :
                       LET r == DbCreate(users, model, id)
                       IN  /\ users' = r.store
                           /\ calls' = [calls EXCEPT ![c] =
                                  Done([call EXCEPT !.result = Some(r.result)],
                                       CreateAfterTry(Some(r.result)))]
    /\ UNCHANGED <<plans, env>>

---------------------------------------------------------------------------
(* findOne *)

\* const id = where?.id
FindOneId(where) == IF IsNil(where) THEN None ELSE Get(where).id

\* the record is returned without looking at it
FindOneAfterTryUnchecked(edge) == Returned

\* if (!_.isEmpty(edge)) return edge; throw NotFoundError(NotFound('Subscription Plan'))
FindOneAfterTry(edge) ==
    IF ~IsNil(edge) THEN Returned
    ELSE Thrown(NotFoundError(NotFound("Subscription Plan")))

FindOneStart(c, where) ==
    /\ CanInvoke(c)
    /\ LET call == [NewCall("findOne") EXCEPT !.where = where,
                        !.valid = subscriptionPlanFilterSchema(where)]
       IN  \E next \in
               (IF ~call.valid
                THEN Caught(call, ValidationError("Subscription Plan"),
                            NotFound("Subscription Plan"), FindOneAfterTry(call.result))
                ELSE IF IsNil(FindOneId(where))
                THEN {Done(call, FindOneAfterTry(call.result))}
                ELSE {[call EXCEPT !.pc = "findOne_db"]}) :
               calls' = [calls EXCEPT ![c] = next]
    /\ UNCHANGED <<users, plans, env>>

\* edge = await this.dbService.findOne(new SubscriptionPlans({ id }))
FindOneDb(c) ==
    /\ calls[c].pc = "findOne_db"
    /\ LET call == [calls[c] EXCEPT !.queries = @ + 1]
           edge == DbFindOne(plans, SubscriptionPlans(FindOneId(call.where), None, None))
       IN  \E rejected \in DbRejects :
           \E next \in
               (IF rejected
                THEN Caught(call, DatabaseError, NotFound("Subscription Plan"),
                            FindOneAfterTry(call.result))
                ELSE {Done([call EXCEPT !.result = edge], FindOneAfterTry(edge))}) :
               calls' = [calls EXCEPT ![c] = next]
    /\ UNCHANGED <<users, plans, env>>

---------------------------------------------------------------------------
(* findAll *)

\* the branches over { id, limit, skip }: the database query the handler
\* issues, if it issues one
FindAllQuery(where) ==
    IF ~IsNil(where)
    THEN LET id == Get(where).id
             limit == Get(where).limit
             skip == Get(where).skip
         IN  IF ~IsNil(id) /\ ~IsNil(limit) /\ ~IsNil(skip)
             THEN Some([filter |-> SubscriptionPlans(id, None, None),
                        limit |-> Get(limit), skip |-> Get(skip)])
             ELSE IF ~IsNil(limit) /\ ~IsNil(skip)
             THEN Some([filter |-> SubscriptionPlans(None, None, None),
                        limit |-> Get(limit), skip |-> Get(skip)])
             ELSE IF ~IsNil(id)
             THEN Some([filter |-> SubscriptionPlans(id, None, None),
                        limit |-> DefaultLimit, skip |-> DefaultSkip])
             ELSE None
    ELSE Some([filter |-> SubscriptionPlans(None, None, None),
               limit |-> DefaultLimit, skip |-> DefaultSkip])

\* has_more forgets the records skipped
PageInfoNoSkip(count, recordLimit, recordSkip) ==
    [total |-> count, limit |-> recordLimit, skip |-> recordSkip,
     has_more |-> IF count > recordLimit THEN TRUE ELSE FALSE]

\* page_info: { total: count, limit: recordLimit, skip: recordSkip, has_more }
PageInfo(count, recordLimit, recordSkip) ==
    [total |-> count, limit |-> recordLimit, skip |-> recordSkip,
     has_more |-> IF count > recordLimit + recordSkip THEN TRUE ELSE FALSE]

\* if (!_.isEmpty(edges)) return { edges, page_info }; throw NotFoundError(...)
FindAllAfterTry(edges) ==
    IF ~IsEmptyEdges(edges) THEN Returned
    ELSE Thrown(NotFoundError(NotFound("Subscription Plan")))

FindAllStart(c, where) ==
    /\ CanInvoke(c)
    /\ LET call == [NewCall("findAll") EXCEPT !.where = where,
                        !.valid = subscriptionPlanFilterSchema(where)]
           q == FindAllQuery(where)
       IN  \E next \in
               (IF ~call.valid
                THEN Caught(call, ValidationError("Subscription Plan"),
                            NotFound("Subscription Plan"), FindAllAfterTry(call.edges))
                ELSE IF IsNil(q)
                THEN {Done(call, FindAllAfterTry(call.edges))}
                ELSE {[call EXCEPT !.pc = "findAll_db", !.query = q,
                                   !.recordLimit = Get(q).limit,
                                   !.recordSkip = Get(q).skip]}) :
               calls' = [calls EXCEPT ![c] = next]
    /\ UNCHANGED <<users, plans, env>>

\* [edges, count] = await this.dbService.findAll(filter, recordLimit, recordSkip)
FindAllDb(c) ==
    /\ calls[c].pc = "findAll_db"
    /\ LET call == [calls[c] EXCEPT !.queries = @ + 1]
           q == Get(call.query)
           r == DbFindAll(plans, q.filter, call.recordLimit, call.recordSkip)
           got == [call EXCEPT !.edges = Some(r.edges), !.count = Some(r.count)]
       IN  \E rejected \in DbRejects :
           \E next \in
               (IF rejected
                THEN Caught(call, DatabaseError, NotFound("Subscription Plan"),
                            FindAllAfterTry(call.edges))
                ELSE IF FindAllAfterTry(got.edges) = Returned
                THEN {Done([got EXCEPT !.page_info =
                                Some(PageInfo(r.count, got.recordLimit, got.recordSkip))],
                           Returned)}
                ELSE {Done(got, FindAllAfterTry(got.edges))}) :
               calls' = [calls EXCEPT ![c] = next]
    /\ UNCHANGED <<users, plans, env>>

---------------------------------------------------------------------------
(* update *)

\* if (where) { const { id } = where; if (!_.isNil(id)) { ... } }
UpdateId(where) == IF IsNil(where) THEN None ELSE Get(where).id

\* the duplicate test forgets that the record found may be the target
UpdateDuplicateAnyId(isExist, id) == ~IsNil(isExist)

\* if (!_.isNil(isExist) && isExist?.id != id) throw ConflictError(Duplicate(...))
UpdateDuplicate(isExist, id) == ~IsNil(isExist) /\ Get(isExist).id # id

\* any count the database reports is taken for a success
UpdateAfterTryAnyCount(modified) ==
    IF ~IsNil(modified) THEN Returned
    ELSE Thrown(NotFoundError(NotFound("Subscription Plan")))

\* if (modified > 0) return { modified, edges }; throw NotFoundError(...)
UpdateAfterTry(modified) ==
    IF ~IsNil(modified) /\ Get(modified) > 0 THEN Returned
    ELSE Thrown(NotFoundError(NotFound("Subscription Plan")))

UpdateStart(c, payload, where) ==
    /\ CanInvoke(c)
    /\ LET call == [NewCall("update") EXCEPT !.payload = Some(payload),
                        !.where = where,
                        !.valid = subscriptionPlanUpdateSchema(payload, where)]
       IN  \E next \in
               (IF ~call.valid
                THEN Caught(call, ValidationError("Subscription Plan"),
                            Duplicate("Subscription Plan"), UpdateAfterTry(call.modified))
                ELSE IF IsNil(UpdateId(where))
                THEN {Done(call, UpdateAfterTry(call.modified))}
                ELSE {[call EXCEPT !.pc = "update_findOne"]}) :
               calls' = [calls EXCEPT ![c] = next]
    /\ UNCHANGED <<users, plans, env>>

\* const slug = ...; const isExist = await this.dbService.findOne({ slug })
UpdateFindOne(c) ==
    /\ calls[c].pc = "update_findOne"
    /\ LET call == [calls[c] EXCEPT !.reads = @ + 1]
           id == Get(UpdateId(call.where))
           slug == Slug(Get(Get(call.payload).name))
           found == [call EXCEPT !.isExist =
                        DbFindOne(plans, SubscriptionPlans(None, None, Some(slug)))]
       IN  \E rejected \in DbRejects :
           \E next \in
               (IF rejected
                THEN Caught(call, DatabaseError, Duplicate("Subscription Plan"),
                            UpdateAfterTry(call.modified))
                ELSE IF UpdateDuplicate(found.isExist, id)
                THEN Caught(found, ConflictError(Duplicate("Subscription Plan")),
                            Duplicate("Subscription Plan"),
                            UpdateAfterTry(found.modified))
                ELSE {[found EXCEPT !.pc = "update_db"]}) :
               calls' = [calls EXCEPT ![c] = next]
    /\ UNCHANGED <<users, plans, env>>

\* [edges, modified] = await this.dbService.update(
\*     new SubscriptionPlans({ ...payload, slug }), new SubscriptionPlans({ id }))
UpdateDb(c) ==
    /\ calls[c].pc = "update_db"
    /\ LET call == [calls[c] EXCEPT !.writes = @ + 1]
           id == UpdateId(call.where)
           name == Get(call.payload).name
           r == DbUpdate(plans, SubscriptionPlans(None, name, Some(Slug(Get(name)))),
                         SubscriptionPlans(id, None, None))
       IN  \E rejected \in DbRejects :
               IF rejected
               THEN /\ plans' = plans
                    /\ \E next \in Caught(call, DatabaseError,
                                          Duplicate("Subscription Plan"),
                                          UpdateAfterTry(call.modified)) :
                           calls' = [calls EXCEPT ![c] = next]
               ELSE /\ plans' = r.store
                    /\ calls' = [calls EXCEPT ![c] =
                           Done([call EXCEPT !.edges = Some(r.edges),
                                             !.modified = Some(r.modified)],
                                UpdateAfterTry(Some(r.modified)))]
    /\ UNCHANGED <<users, env>>

---------------------------------------------------------------------------
(* delete *)

\* if (where) { const { id } = where; if (!_.isNil(id)) { ... } }
DeleteId(where) == IF IsNil(where) THEN None ELSE Get(where).id

\* if (modified !== 0): an unset count is taken for a success
DeleteAfterTryLoose(modified) ==
    IF IsNil(modified) \/ Get(modified) # 0 THEN Returned
    ELSE Thrown(NotFoundError(NotFound("Subscription Plan")))

\* if (modified > 0) return { modified, edges }; throw NotFoundError(...)
DeleteAfterTry(modified) ==
    IF ~IsNil(modified) /\ Get(modified) > 0 THEN Returned
    ELSE Thrown(NotFoundError(NotFound("Subscription Plan")))

DeleteStart(c, where) ==
    /\ CanInvoke(c)
    /\ LET call == [NewCall("delete") EXCEPT !.where = where,
                        !.valid = subscriptionPlanFilterSchema(where)]
       IN  \E next \in
               (IF ~call.valid
                THEN Caught(call, ValidationError("Subscription Plan"),
                            UnableToDelete("Subscription Plan"),
                            DeleteAfterTry(call.modified))
                ELSE IF IsNil(DeleteId(where))
                THEN {Done(call, DeleteAfterTry(call.modified))}
                ELSE {[call EXCEPT !.pc = "delete_db"]}) :
               calls' = [calls EXCEPT ![c] = next]
    /\ UNCHANGED <<users, plans, env>>

\* [edges, modified] = await this.dbService.delete(new SubscriptionPlans({ id }))
DeleteDb(c) ==
    /\ calls[c].pc = "delete_db"
    /\ LET call == [calls[c] EXCEPT !.writes = @ + 1]
           r == DbDelete(plans, SubscriptionPlans(DeleteId(call.where), None, None))
       IN  \E rejected \in DbRejects :
               IF rejected
               THEN /\ plans' = plans
                    /\ \E next \in Caught(call, DatabaseError,
                                          UnableToDelete("Subscription Plan"),
                                          DeleteAfterTry(call.modified)) :
                           calls' = [calls EXCEPT ![c] = next]
               ELSE /\ plans' = r.store
                    /\ calls' = [calls EXCEPT ![c] =
                           Done([call EXCEPT !.edges = Some(r.edges),
                                             !.modified = Some(r.modified)],
                                DeleteAfterTry(Some(r.modified)))]
    /\ UNCHANGED <<users, env>>

---------------------------------------------------------------------------
(* The caller takes the result or the error; the slot is free again *)

Return(c) ==
    /\ calls[c].pc = "done"
    /\ calls' = [calls EXCEPT ![c] = IdleCall]
    /\ UNCHANGED <<users, plans, env>>

---------------------------------------------------------------------------
(* Specifications *)

InitStores ==
    /\ users = <<>>
    /\ plans \in {InitialPlans(n) : n \in InitialPlanCounts}
    /\ calls = [c \in Calls |-> IdleCall]

\* one call at a time, a database that keeps its promises, a ParseError
\* that always throws
Init ==
    /\ InitStores
    /\ env = [inflight |-> 1, dbFaulty |-> FALSE, parseThrows |-> TRUE]

\* one call at a time; database promises may reject, create may hand back
\* an entity without an id, and ParseError may log and return instead of
\* throwing
InitFault ==
    /\ InitStores
    /\ env \in [inflight : {1}, dbFaulty : {TRUE}, parseThrows : BOOLEAN]

\* calls interleave at their awaits
InitConc ==
    /\ InitStores
    /\ env = [inflight |-> MaxCalls, dbFaulty |-> FALSE, parseThrows |-> TRUE]

NextCreate ==
    \E c \in Calls :
        \/ \E payload \in CreatePayloads : CreateStart(c, payload)
        \/ CreateFindOne(c)
        \/ CreateInsert(c)
        \/ Return(c)

Next ==
    \E c \in Calls :
        \/ \E payload \in CreatePayloads : CreateStart(c, payload)
        \/ CreateFindOne(c)
        \/ CreateInsert(c)
        \/ \E where \in Filters : FindOneStart(c, where)
        \/ FindOneDb(c)
        \/ \E where \in Filters : FindAllStart(c, where)
        \/ FindAllDb(c)
        \/ \E payload \in UpdatePayloads, where \in Filters : UpdateStart(c, payload, where)
        \/ UpdateFindOne(c)
        \/ UpdateDb(c)
        \/ \E where \in Filters : DeleteStart(c, where)
        \/ DeleteDb(c)
        \/ Return(c)

Spec == Init /\ [][Next]_vars

SpecFault == InitFault /\ [][Next]_vars

SpecConc == InitConc /\ [][NextCreate]_vars

---------------------------------------------------------------------------
(* Properties *)

SP == "Subscription Plan"

Finished(c, op) == calls[c].pc = "done" /\ calls[c].op = op

EmailHeld(store, email) == \E i \in 1..Len(store) : store[i].email = email

IdHeld(store, id) == \E i \in 1..Len(store) : store[i].id = id

SlugHeld(store, slug) == \E i \in 1..Len(store) : store[i].slug = slug

SlugHeldByOther(store, slug, id) ==
    \E i \in 1..Len(store) : store[i].slug = slug /\ store[i].id # id

HasId(where) == ~IsNil(where) /\ ~IsNil(Get(where).id)

StoresUntouched(c) == users = calls[c].pre.users /\ plans = calls[c].pre.plans

ThrewWith(c, e) == calls[c].outcome = "thrown" /\ calls[c].error = e

DbCalls(c) == calls[c].reads + calls[c].writes + calls[c].queries

\* C1: a create whose payload passes validation and whose email is already
\* stored fails with Conflict (Duplicate 'User'), never calls
\* dbService.create, and leaves the stored users as they were.
C1_DuplicateEmailConflict ==
    \A c \in Calls :
        (/\ Finished(c, "create")
         /\ calls[c].valid
         /\ EmailHeld(calls[c].pre.users, Get(calls[c].payload).email))
        => /\ ThrewWith(c, ConflictError(Duplicate("User")))
           /\ calls[c].writes = 0
           /\ users = calls[c].pre.users

C1_Witness ==
    \E c \in Calls :
        /\ Finished(c, "create")
        /\ calls[c].valid
        /\ EmailHeld(calls[c].pre.users, Get(calls[c].payload).email)
        /\ calls[c].reads = 1
        /\ calls[c].error.kind = "Conflict"

\* C2: a create with a valid payload and a fresh email, no database call
\* of which rejects, inserts the entity and returns it when the database
\* gave it a non-empty id; an entity without an id ends in BadRequest
\* (UnableToSave 'User'); no create ever returns an entity whose id is
\* empty or missing.
C2_CreateReturnsEntityWithId ==
    \A c \in Calls :
        Finished(c, "create") =>
            /\ (/\ calls[c].valid
                /\ ~EmailHeld(calls[c].pre.users, Get(calls[c].payload).email)
                /\ ~calls[c].failed)
               => /\ ~IsNil(calls[c].result)
                  /\ users = Append(calls[c].pre.users, Get(calls[c].result))
                  /\ Get(calls[c].result).email = Get(calls[c].payload).email
                  /\ IF Get(calls[c].result).id # ""
                     THEN calls[c].outcome = "returned"
                     ELSE ThrewWith(c, BadRequestError(UnableSave("User")))
            /\ calls[c].outcome = "returned"
               => /\ ~IsEmptyId(calls[c].result)
                  /\ calls[c].valid
                  /\ ~EmailHeld(calls[c].pre.users, Get(calls[c].payload).email)
                  /\ users = Append(calls[c].pre.users, Get(calls[c].result))

C2_Witness ==
    \E c \in Calls :
        /\ Finished(c, "create")
        /\ calls[c].valid
        /\ ~EmailHeld(calls[c].pre.users, Get(calls[c].payload).email)
        /\ calls[c].outcome = "returned"
        /\ Get(calls[c].result).id # ""
        /\ Len(calls[c].pre.users) > 0

\* C3: whatever the interleaving of concurrent create calls, no two stored
\* users have the same email.
C3_EmailUnique ==
    \A i, j \in 1..Len(users) : i # j => users[i].email # users[j].email

\* C4: findAll with a valid filter that has a limit but no skip (or a skip
\* but no limit) and no id queries the database for all records with
\* limit 10 and skip 0 and returns them whenever a record exists.
C4_PartialPaginationLoadsAll ==
    \A c \in Calls :
        (/\ Finished(c, "findAll")
         /\ calls[c].valid
         /\ ~IsNil(calls[c].where)
         /\ IsNil(Get(calls[c].where).id)
         /\ IsNil(Get(calls[c].where).limit) # IsNil(Get(calls[c].where).skip)
         /\ Len(calls[c].pre.plans) > 0)
        => /\ calls[c].query = Some([filter |-> SubscriptionPlans(None, None, None),
                                     limit |-> DefaultLimit, skip |-> DefaultSkip])
           /\ calls[c].outcome = "returned"
           /\ ~IsNil(calls[c].page_info)

\* C5: findAll without a filter queries the database with limit 10 and
\* skip 0 and returns at most 10 edges; whenever findAll returns, total is
\* the count the database gave, limit and skip are those of the query, and
\* has_more is true exactly when total > limit + skip.
C5_PageInfo ==
    \A c \in Calls :
        Finished(c, "findAll") =>
            /\ IsNil(calls[c].where)
               => /\ calls[c].queries = 1
                  /\ calls[c].query = Some([filter |-> SubscriptionPlans(None, None, None),
                                            limit |-> DefaultLimit, skip |-> DefaultSkip])
                  /\ calls[c].outcome = "returned"
                     => Len(Get(calls[c].edges)) <= DefaultLimit
            /\ calls[c].outcome = "returned"
               => LET info == Get(calls[c].page_info)
                      q == Get(calls[c].query)
                  IN  /\ info.total = Get(calls[c].count)
                      /\ info.total = Len(Select(plans, q.filter))
                      /\ info.limit = q.limit
                      /\ info.skip = q.skip
                      /\ info.has_more = (info.total > info.limit + info.skip)
                      /\ Get(calls[c].edges) =
                             SubSeq(Select(plans, q.filter), q.skip + 1,
                                    Min(q.skip + q.limit, info.total))

C5_Witness ==
    \E c \in Calls :
        /\ Finished(c, "findAll")
        /\ ~IsNil(calls[c].where)
        /\ calls[c].outcome = "returned"
        /\ Get(calls[c].page_info).skip > 0
        /\ Get(calls[c].page_info).total = Get(calls[c].page_info).limit + Get(calls[c].page_info).skip
        /\ ~Get(calls[c].page_info).has_more

\* C6: an update by id whose recomputed slug is held by a record with
\* another id fails with Conflict (Duplicate 'Subscription Plan') and
\* updates nothing; when the target is the only record holding the slug,
\* the update is applied and returned with modified > 0.
C6_UpdateSlugConflict ==
    \A c \in Calls :
        (Finished(c, "update") /\ calls[c].valid /\ HasId(calls[c].where)) =>
            LET id == Get(Get(calls[c].where).id)
                name == Get(Get(calls[c].payload).name)
                before == calls[c].pre.plans
            IN  /\ SlugHeldByOther(before, Slug(name), id)
                   => /\ ThrewWith(c, ConflictError(Duplicate(SP)))
                      /\ calls[c].writes = 0
                      /\ plans = before
                /\ (SlugHeld(before, Slug(name)) /\ ~SlugHeldByOther(before, Slug(name), id))
                   => /\ calls[c].outcome = "returned"
                      /\ calls[c].writes = 1
                      /\ Get(calls[c].modified) > 0
                      /\ Len(Get(calls[c].edges)) = Get(calls[c].modified)
                      /\ \E i \in 1..Len(plans) :
                             /\ plans[i] = [id |-> id, name |-> name, slug |-> Slug(name)]
                             /\ before[i].id = id

C6_Witness ==
    \E c \in Calls :
        /\ Finished(c, "update")
        /\ calls[c].valid
        /\ HasId(calls[c].where)
        /\ ~IsNil(calls[c].isExist)
        /\ Get(calls[c].isExist).id = Get(Get(calls[c].where).id)
        /\ calls[c].outcome = "returned"
        /\ plans # calls[c].pre.plans

\* C7 as stated: update and delete with an id that matches no stored
\* record fail with NotFound ('Subscription Plan') and leave the stored
\* records as they were.
C7_UnknownIdNotFound ==
    \A c \in Calls :
        (/\ Finished(c, "update") \/ Finished(c, "delete")
         /\ calls[c].valid
         /\ HasId(calls[c].where)
         /\ ~IdHeld(calls[c].pre.plans, Get(Get(calls[c].where).id)))
        => /\ ThrewWith(c, NotFoundError(NotFound(SP)))
           /\ StoresUntouched(c)

\* C7 as amended: with an id that matches no stored record the stored
\* records are left as they were; delete with a valid filter fails with
\* NotFound, and so does update with a valid payload unless the recomputed
\* slug is held by a stored record, in which case it fails with Conflict.
C7_UnknownIdNotFoundUnlessConflict ==
    \A c \in Calls :
        (/\ Finished(c, "update") \/ Finished(c, "delete")
         /\ HasId(calls[c].where)
         /\ ~IdHeld(calls[c].pre.plans, Get(Get(calls[c].where).id)))
        => /\ StoresUntouched(c)
           /\ calls[c].outcome = "thrown"
           /\ (calls[c].valid /\ calls[c].op = "delete")
              => ThrewWith(c, NotFoundError(NotFound(SP)))
           /\ (calls[c].valid /\ calls[c].op = "update")
              => IF SlugHeld(calls[c].pre.plans, Slug(Get(Get(calls[c].payload).name)))
                 THEN ThrewWith(c, ConflictError(Duplicate(SP)))
                 ELSE ThrewWith(c, NotFoundError(NotFound(SP))) /\ calls[c].writes = 1

C7_Witness ==
    \E c \in Calls :
        /\ Finished(c, "update")
        /\ calls[c].valid
        /\ HasId(calls[c].where)
        /\ ~IdHeld(calls[c].pre.plans, Get(Get(calls[c].where).id))
        /\ Len(calls[c].pre.plans) > 0
        /\ calls[c].writes = 1
        /\ calls[c].modified = Some(0)
        /\ calls[c].error.kind = "NotFound"

Verbs == {"create", "findOne", "findAll", "update", "delete"}

\* what each verb returns is a positive result
Positive(c) ==
    CASE calls[c].op = "create" -> ~IsEmptyId(calls[c].result)
      [] calls[c].op = "findOne" -> ~IsNil(calls[c].result)
      [] calls[c].op = "findAll" ->
            ~IsEmptyEdges(calls[c].edges) /\ ~IsNil(calls[c].page_info)
      [] OTHER -> ~IsNil(calls[c].modified) /\ Get(calls[c].modified) > 0

\* the step a call that is under way takes next
Step(c) ==
    \/ CreateFindOne(c)
    \/ CreateInsert(c)
    \/ FindOneDb(c)
    \/ FindAllDb(c)
    \/ UpdateFindOne(c)
    \/ UpdateDb(c)
    \/ DeleteDb(c)

\* C8: every call of the five verbs goes on until it ends, and ends either
\* returning a positive result or throwing a classified error; a call in
\* which a failure was caught never returns, whether ParseError throws or
\* only logs, and whether or not the database rejects.
C8_PositiveResultOrClassifiedError ==
    \A c \in Calls :
        /\ calls[c].pc \notin {"idle", "done"} => ENABLED Step(c)
        /\ calls[c].pc = "done" =>
              /\ calls[c].op \in Verbs
              /\ calls[c].outcome \in {"returned", "thrown"}
              /\ calls[c].outcome = "returned"
                 => Positive(c) /\ ~calls[c].failed /\ calls[c].error = NoError
              /\ calls[c].outcome = "thrown" => calls[c].error.kind \in Classified
              /\ calls[c].failed => calls[c].outcome = "thrown"

\* a validation failure that ParseError let pass: the check below the try
\* block threw
C8_Witness ==
    \E c \in Calls :
        /\ Finished(c, "findOne")
        /\ ~env.parseThrows
        /\ ~calls[c].valid
        /\ calls[c].failed
        /\ ThrewWith(c, NotFoundError(NotFound(SP)))

\* C9 as stated: findOne, update and delete with a filter that is absent
\* or carries no id issue no database call and fail with NotFound
\* ('Subscription Plan').
C9_NoIdNotFound ==
    \A c \in Calls :
        (/\ Finished(c, "findOne") \/ Finished(c, "update") \/ Finished(c, "delete")
         /\ ~HasId(calls[c].where))
        => /\ DbCalls(c) = 0
           /\ ThrewWith(c, NotFoundError(NotFound(SP)))

\* C9 as amended: such a call issues no database call and changes nothing;
\* it fails with NotFound ('Subscription Plan') when its input passes
\* schema validation, and with the validation error otherwise.
C9_NoIdNoDatabaseCall ==
    \A c \in Calls :
        (/\ Finished(c, "findOne") \/ Finished(c, "update") \/ Finished(c, "delete")
         /\ ~HasId(calls[c].where))
        => /\ DbCalls(c) = 0
           /\ StoresUntouched(c)
           /\ IF calls[c].valid
              THEN ThrewWith(c, NotFoundError(NotFound(SP)))
              ELSE ThrewWith(c, ValidationError(SP))

C9_Witness ==
    \E c \in Calls :
        /\ Finished(c, "delete")
        /\ calls[c].valid
        /\ ~IsNil(calls[c].where)
        /\ ~HasId(calls[c].where)
        /\ Len(plans) > 0
        /\ ThrewWith(c, NotFoundError(NotFound(SP)))

\* the duplicate check of a create or update call found nothing in the way
DuplicateCheckPassed(c) ==
    /\ calls[c].reads = 1
    /\ IF calls[c].op = "create"
       THEN IsNil(calls[c].isExist)
       ELSE IsNil(calls[c].isExist)
            \/ Get(calls[c].isExist).id = Get(Get(calls[c].where).id)

\* C10: a create or update call reads for its duplicate check before it
\* writes and writes at most once; a call whose payload fails validation
\* neither reads nor writes; the stored records are changed by such a call
\* only when it passed both validation and the duplicate check.
C10_ReadBeforeWrite ==
    \A c \in Calls :
        calls[c].op \in {"create", "update"} =>
            /\ calls[c].reads <= 1
            /\ calls[c].writes <= 1
            /\ calls[c].writes = 1 => calls[c].valid /\ DuplicateCheckPassed(c)
            /\ ~calls[c].valid => calls[c].reads = 0 /\ calls[c].writes = 0
            /\ calls[c].pc = "create_insert" => DuplicateCheckPassed(c) /\ calls[c].writes = 0
            /\ calls[c].pc = "update_db" => DuplicateCheckPassed(c) /\ calls[c].writes = 0
            /\ ~StoresUntouched(c) => calls[c].valid /\ DuplicateCheckPassed(c) /\ calls[c].writes = 1

C10_Witness ==
    \E c \in Calls :
        /\ Finished(c, "update")
        /\ calls[c].reads = 1
        /\ calls[c].writes = 1
        /\ ~IsNil(calls[c].isExist)
        /\ plans # calls[c].pre.plans

====
